---- MODULE Spec2Model ----
(***************************************************************************)
(* HealthAssist (src/health_assist_groq.py): the "Run assistant" flow of   *)
(* the Streamlit script, the Groq chat-completion client call_groq_chat   *)
(* and the local rule-based responder fallback_assistant.                  *)
(*                                                                         *)
(* Python strings are modelled as sequences of one-character strings, so   *)
(* that strip, lower, split, capitalize, join and the `in` substring test  *)
(* are computed as Python computes them.  Two characters outside ASCII are *)
(* written as the named elements "EMDASH" and "DEG".  Python values that   *)
(* can be of more than one type (JSON data, assistant_text, err_msg) are   *)
(* tagged records: PyStr, PyNum, PyNone, PyList, PyDict.                   *)
(***************************************************************************)
EXTENDS Integers, Sequences, FiniteSets, TLC

VARIABLES sidebar_key, env_key, patient_text, action, pc, outcome,
          assistant_text, display, calls, posts

vars == <<sidebar_key, env_key, patient_text, action, pc, outcome,
          assistant_text, display, calls, posts>>

(***************************************************************************)
(* Bounds of the model.                                                    *)
(***************************************************************************)
\* longest case note, in pieces of NotePieces, given to fallback_assistant alone
MaxPieces == 4
\* longest case note, in pieces of NotePieces, typed into the form
MaxHandlerPieces == 1

(***************************************************************************)
(* Python str methods.                                                     *)
(***************************************************************************)
UpperLetters == <<"A","B","C","D","E","F","G","H","I","J","K","L","M","N","O","P","Q","R","S","T","U","V",
      "W","X","Y","Z">>
LowerLetters == <<"a","b","c","d","e","f","g","h","i","j","k","l","m","n","o","p","q","r","s","t","u","v",
      "w","x","y","z">>
Whitespace == {" ", "\n", "\t"}

SetMin(S) == CHOOSE m \in S : \A n \in S : m <= n
SetMax(S) == CHOOSE m \in S : \A n \in S : m >= n

char_lower(c) ==
    IF \E i \in 1..Len(UpperLetters) : UpperLetters[i] = c
    THEN LowerLetters[CHOOSE i \in 1..Len(UpperLetters) : UpperLetters[i] = c]
    ELSE c

char_upper(c) ==
    IF \E i \in 1..Len(LowerLetters) : LowerLetters[i] = c
    THEN UpperLetters[CHOOSE i \in 1..Len(LowerLetters) : LowerLetters[i] = c]
    ELSE c

\* s.lower()
str_lower(s) == [i \in 1..Len(s) |-> char_lower(s[i])]

\* s.strip()
str_strip(s) ==
    LET kept == {i \in 1..Len(s) : s[i] \notin Whitespace}
    IN  IF kept = {} THEN <<>> ELSE SubSeq(s, SetMin(kept), SetMax(kept))

\* s.replace(old, new) for one-character old and new
str_replace(s, old, new) == [i \in 1..Len(s) |-> IF s[i] = old THEN new ELSE s[i]]

\* s.split(sep) for a one-character sep: always at least one fragment
RECURSIVE str_split(_, _)
str_split(s, sep) ==
    LET at == {i \in 1..Len(s) : s[i] = sep}
    IN  IF at = {} THEN <<s>>
        ELSE <<SubSeq(s, 1, SetMin(at) - 1)>>
             \o str_split(SubSeq(s, SetMin(at) + 1, Len(s)), sep)

\* s.capitalize(): first character upper-cased, the rest lower-cased
str_capitalize(s) ==
    [i \in 1..Len(s) |-> IF i = 1 THEN char_upper(s[i]) ELSE char_lower(s[i])]

\* sep.join(parts)
RECURSIVE str_join(_, _)
str_join(sep, parts) ==
    IF parts = <<>> THEN <<>>
    ELSE IF Len(parts) = 1 THEN parts[1]
    ELSE parts[1] \o sep \o str_join(sep, Tail(parts))

\* s.endswith(suffix)
str_endswith(s, suffix) ==
    /\ Len(suffix) <= Len(s)
    /\ SubSeq(s, Len(s) - Len(suffix) + 1, Len(s)) = suffix

\* k in s
str_contains(s, k) ==
    \E i \in 1..(Len(s) - Len(k) + 1) : SubSeq(s, i, i + Len(k) - 1) = k

\* sents[:n]
slice_to(seq, n) == SubSeq(seq, 1, IF Len(seq) < n THEN Len(seq) ELSE n)

\* any(k in text for k in keywords)
any_in(text, keywords) == \E i \in 1..Len(keywords) : str_contains(text, keywords[i])

(***************************************************************************)
(* fallback_assistant: the keyword tables and the canned lines.            *)
(***************************************************************************)
Actions == {"Summarize", "Suggest tests", "Triage urgency", "Generate SOAP note"}

FeverKeywords == << <<"f","e","v","e","r">>, <<"t","e","m","p","e","r","a","t","u","r","e">>, <<"c","h","i","l","l","s">> >>
CoughKeywords == << <<"c","o","u","g","h">>, <<"s","p","u","t","u","m">>, <<"s","h","o","r","t","n","e","s","s"," ","o","f"," ","b","r","e","a","t","h">>, <<"d","y","s","p","n","e","a">> >>
ChestKeywords == << <<"c","h","e","s","t"," ","p","a","i","n">>, <<"p","a","l","p","i","t","a","t","i","o","n">> >>
EmergencyKeywords ==
    << <<"u","n","c","o","n","s","c","i","o","u","s">>, <<"n","o","t"," ","b","r","e","a","t","h","i","n","g">>, <<"s","e","v","e","r","e"," ","b","l","e","e","d","i","n","g">>, <<"c","a","r","d","i","a","c"," ","a","r","r","e","s","t">> >>
UrgentKeywords == << <<"h","i","g","h"," ","f","e","v","e","r">>, <<"s","e","v","e","r","e"," ","s","h","o","r","t","n","e","s","s"," ","o","f"," ","b","r",
      "e","a","t","h">>, <<"c","h","e","s","t"," ","p","a","i","n">> >>

FeverLine == <<"-"," ","C","B","C",","," ","C","R","P",","," ","b","l","o","o","d"," ","c","u","l","t",
      "u","r","e","s"," ","(","i","f"," ","s","e","v","e","r","e",")">>
CoughLine == <<"-"," ","C","h","e","s","t"," ","X","-","r","a","y",","," ","s","p","u","t","u","m"," ",
      "c","u","l","t","u","r","e",","," ","p","u","l","s","e"," ","o","x","i","m","e","t",
      "r","y">>
ChestLine == <<"-"," ","E","C","G",","," ","t","r","o","p","o","n","i","n",","," ","c","h","e","s","t",
      " ","X","-","r","a","y">>
GenericLine == <<"-"," ","B","a","s","i","c"," ","m","e","t","a","b","o","l","i","c"," ","p","a","n","e",
      "l"," ","(","B","M","P",")",","," ","C","B","C",","," ","E","C","G"," ","a","s"," ",
      "c","l","i","n","i","c","a","l","l","y"," ","i","n","d","i","c","a","t","e","d">>
EmergencyTier == <<"E","m","e","r","g","e","n","c","y"," ","EMDASH"," ","c","a","l","l"," ","c","o","d","e",
      "/","t","r","a","n","s","f","e","r"," ","t","o"," ","E","D"," ","i","m","m","e","d",
      "i","a","t","e","l","y",".">>
HighTier == <<"H","i","g","h"," ","u","r","g","e","n","c","y"," ","EMDASH"," ","u","r","g","e","n","t",
      " ","e","v","a","l","u","a","t","i","o","n"," ","w","i","t","h","i","n"," ","h","o",
      "u","r","s",".">>
LowTier == <<"L","o","w","-","m","o","d","e","r","a","t","e"," ","u","r","g","e","n","c","y"," ",
      "EMDASH"," ","o","u","t","p","a","t","i","e","n","t"," ","f","o","l","l","o","w","-",
      "u","p"," ","r","e","c","o","m","m","e","n","d","e","d",".">>
SoapSubjective == <<"S","u","b","j","e","c","t","i","v","e",":"," ">>
SoapRest ==
    <<"\n","\n","O","b","j","e","c","t","i","v","e",":"," ","v","i","t","a","l","s"," ","n","o",
      "t"," ","p","r","o","v","i","d","e","d","."," ","E","x","a","m",":"," ","t","o"," ",
      "b","e"," ","p","e","r","f","o","r","m","e","d",".">>
    \o <<"\n","\n","A","s","s","e","s","s","m","e","n","t",":"," ","d","i","f","f","e","r","e","n",
      "t","i","a","l"," ","d","i","a","g","n","o","s","i","s"," ","t","o"," ","c","o","n",
      "s","i","d","e","r"," ","b","a","s","e","d"," ","o","n"," ","s","y","m","p","t","o",
      "m","s",".">>
    \o <<"\n","\n","P","l","a","n",":"," ","o","r","d","e","r"," ","t","e","s","t","s"," ","a","s",
      " ","n","e","e","d","e","d",","," ","s","y","m","p","t","o","m","a","t","i","c"," ",
      "t","r","e","a","t","m","e","n","t",","," ","f","o","l","l","o","w","-","u","p",".">>
NotRecognized == <<"A","c","t","i","o","n"," ","n","o","t"," ","r","e","c","o","g","n","i","z","e","d",".">>

\* summary_fragments with the empty fragments dropped before the first three are taken
summary_fragments_filter_first(sents) ==
    LET kept == slice_to(SelectSeq(sents, LAMBDA s : str_strip(s) # <<>>), 3)
    IN  [i \in 1..Len(kept) |-> str_capitalize(str_strip(kept[i]))]

\* [s.strip().capitalize() for s in sents[:3] if s.strip()]
summary_fragments(sents) ==
    LET first == slice_to(sents, 3)
        kept == SelectSeq(first, LAMBDA s : str_strip(s) # <<>>)
    IN  [i \in 1..Len(kept) |-> str_capitalize(str_strip(kept[i]))]

summarize(text) ==
    LET sents == str_split(str_replace(text, "\n", " "), ".")
        summary == str_join(<<"."," ">>, summary_fragments(sents))
    IN  summary \o (IF summary # <<>> /\ ~str_endswith(summary, <<".">>) THEN <<".">> ELSE <<>>)

\* suggest_tests with the three tests chained by elif
suggest_tests_first_match(text) ==
    IF any_in(text, FeverKeywords) THEN FeverLine
    ELSE IF any_in(text, CoughKeywords) THEN CoughLine
    ELSE IF any_in(text, ChestKeywords) THEN ChestLine
    ELSE GenericLine

suggest_tests(text) ==
    LET s1 == IF any_in(text, FeverKeywords) THEN <<FeverLine>> ELSE <<>>
        s2 == s1 \o (IF any_in(text, CoughKeywords) THEN <<CoughLine>> ELSE <<>>)
        s3 == s2 \o (IF any_in(text, ChestKeywords) THEN <<ChestLine>> ELSE <<>>)
        suggestions == IF s3 = <<>> THEN <<GenericLine>> ELSE s3
    IN  str_join(<<"\n">>, suggestions)

\* triage_urgency with the urgent keywords tested first
triage_urgency_urgent_first(text) ==
    IF any_in(text, UrgentKeywords) THEN HighTier
    ELSE IF any_in(text, EmergencyKeywords) THEN EmergencyTier
    ELSE LowTier

triage_urgency(text) ==
    IF any_in(text, EmergencyKeywords) THEN EmergencyTier
    ELSE IF any_in(text, UrgentKeywords) THEN HighTier
    ELSE LowTier

soap_note(text) ==
    SoapSubjective \o str_capitalize(str_split(text, ".")[1]) \o <<".">> \o SoapRest

fallback_assistant(p_text, act) ==
    LET text == str_lower(str_strip(p_text))
    IN  IF act = "Summarize" THEN summarize(text)
        ELSE IF act = "Suggest tests" THEN suggest_tests(text)
        ELSE IF act = "Triage urgency" THEN triage_urgency(text)
        ELSE IF act = "Generate SOAP note" THEN soap_note(text)
        ELSE NotRecognized

(***************************************************************************)
(* Case notes: the note the form starts with, the notes of the documented  *)
(* examples, and every concatenation of at most n pieces.                  *)
(***************************************************************************)
default_case ==
    <<"5","0","-","y","e","a","r","-","o","l","d"," ","m","a","l","e"," ","w","i","t","h"," ",
      "3"," ","d","a","y","s"," ","o","f"," ","p","r","o","d","u","c","t","i","v","e"," ",
      "c","o","u","g","h",","," ","f","e","v","e","r"," ","3","8",".","9","DEG","C",","," ">>
    \o <<"m","i","l","d"," ","s","h","o","r","t","n","e","s","s"," ","o","f"," ","b","r","e","a",
      "t","h"," ","o","n"," ","e","x","e","r","t","i","o","n","."," ","N","o"," ","c","h",
      "e","s","t"," ","p","a","i","n","."," ">>
    \o <<"P","a","s","t"," ","h","i","s","t","o","r","y",":"," ","h","y","p","e","r","t","e","n",
      "s","i","o","n","."," ","M","e","d","s",":"," ","l","i","s","i","n","o","p","r","i",
      "l",".">>

ExampleNotes ==
    { default_case,
      <<"P","a","t","i","e","n","t"," ","h","a","s"," ","f","e","v","e","r"," ","a","n","d"," ",
      "c","o","u","g","h",".">>,
      <<"C","a","r","d","i","a","c"," ","a","r","r","e","s","t"," ","a","f","t","e","r"," ","c",
      "h","e","s","t"," ","p","a","i","n"," ","a","n","d"," ","h","i","g","h"," ","f","e",
      "v","e","r">>,
      <<"S","o","r","e"," ","t","h","r","o","a","t","."," ","."," ","R","u","n","n","y"," ","n",
      "o","s","e",".",".","."," ","S","n","e","e","z","i","n","g","."," ","H","e","a","d",
      "a","c","h","e",".">> }

NotePieces ==
    { <<"F","e","v","e","r">>, <<"h","i","g","h"," ","f","e","v","e","r">>, <<"c","o","u","g","h">>, <<"c","h","e","s","t"," ","p","a","i","n">>, <<"c","a","r","d","i","a","c"," ","a","r","r","e","s","t">>, <<".">>, <<" ">>, <<"\n">> }

RECURSIVE PieceNotes(_)
PieceNotes(n) ==
    IF n = 0 THEN {<<>>}
    ELSE LET shorter == PieceNotes(n - 1)
         IN  shorter \cup {s \o p : s \in shorter, p \in NotePieces}

FallbackNotes == PieceNotes(MaxPieces) \cup ExampleNotes
HandlerNotes == PieceNotes(MaxHandlerPieces) \cup ExampleNotes

(***************************************************************************)
(* Tagged Python values.                                                   *)
(***************************************************************************)
PyNone == [t |-> "none"]
PyStr(s) == [t |-> "str", s |-> s]
PyNum(n) == [t |-> "num", n |-> n]
PyList(l) == [t |-> "list", l |-> l]
\* items: a sequence of <<key, value>>, key a character sequence
PyDict(items) == [t |-> "dict", d |-> items]

\* bool(v)
truthy(v) ==
    CASE v.t = "none" -> FALSE
      [] v.t = "str" -> v.s # <<>>
      [] v.t = "num" -> v.n # 0
      [] v.t = "list" -> v.l # <<>>
      [] v.t = "dict" -> v.d # <<>>
      [] OTHER -> TRUE

Digits == <<"0","1","2","3","4","5","6","7","8","9">>

\* str(n) for an int n >= 0
RECURSIVE int_str(_)
int_str(n) ==
    IF n < 10 THEN <<Digits[n + 1]>> ELSE int_str(n \div 10) \o <<Digits[(n % 10) + 1]>>

RECURSIVE py_repr(_)
\* repr(v)
py_repr(v) ==
    CASE v.t = "none" -> <<"N","o","n","e">>
      [] v.t = "str" -> <<"'">> \o v.s \o <<"'">>
      [] v.t = "num" -> int_str(v.n)
      [] v.t = "list" ->
            <<"[">> \o str_join(<<","," ">>, [i \in 1..Len(v.l) |-> py_repr(v.l[i])]) \o <<"]">>
      [] v.t = "dict" ->
            <<"{">> \o str_join(<<","," ">>, [i \in 1..Len(v.d) |->
                        <<"'">> \o v.d[i][1] \o <<"'",":"," ">> \o py_repr(v.d[i][2])]) \o <<"}">>

\* str(v)
py_str(v) == IF v.t = "str" THEN v.s ELSE py_repr(v)

spaces(n) == [i \in 1..n |-> " "]

RECURSIVE json_dumps(_, _)
\* json.dumps(v, indent=2), ind the indentation of the enclosing line
json_dumps(v, ind) ==
    CASE v.t = "none" -> <<"n","u","l","l">>
      [] v.t = "str" -> <<"\"">> \o v.s \o <<"\"">>
      [] v.t = "num" -> int_str(v.n)
      [] v.t = "list" ->
            IF v.l = <<>> THEN <<"[","]">>
            ELSE <<"[","\n">>
                 \o str_join(<<",","\n">>, [i \in 1..Len(v.l) |->
                        spaces(ind + 2) \o json_dumps(v.l[i], ind + 2)])
                 \o <<"\n">> \o spaces(ind) \o <<"]">>
      [] v.t = "dict" ->
            IF v.d = <<>> THEN <<"{", "}">>
            ELSE <<"{", "\n">>
                 \o str_join(<<",","\n">>, [i \in 1..Len(v.d) |->
                        spaces(ind + 2) \o <<"\"">> \o v.d[i][1] \o <<"\"", ":", " ">>
                        \o json_dumps(v.d[i][2], ind + 2)])
                 \o <<"\n">> \o spaces(ind) \o <<"}">>

has_key(v, k) == \E i \in 1..Len(v.d) : v.d[i][1] = k

\* v.get(k, default) of a dict v
dict_get(v, k, default) ==
    IF has_key(v, k)
    THEN v.d[CHOOSE i \in 1..Len(v.d) : v.d[i][1] = k][2]
    ELSE default

\* v[k]: [ok |-> FALSE] stands for the KeyError, IndexError or TypeError raised
getitem(v, k) ==
    CASE v.t = "dict" /\ k.t = "str" /\ has_key(v, k.s) ->
            [ok |-> TRUE, v |-> dict_get(v, k.s, PyNone)]
      [] v.t = "list" /\ k.t = "num" /\ k.n < Len(v.l) ->
            [ok |-> TRUE, v |-> v.l[k.n + 1]]
      [] v.t = "str" /\ k.t = "num" /\ k.n < Len(v.s) ->
            [ok |-> TRUE, v |-> PyStr(<<v.s[k.n + 1]>>)]
      [] OTHER -> [ok |-> FALSE, v |-> PyNone]

(***************************************************************************)
(* The HTTP exchange: what requests.post can do.                           *)
(***************************************************************************)
\* a body that is no JSON document
RawText(s) == [t |-> "text", s |-> s]

ExpectedBody ==
    PyDict(<< <<<<"c","h","o","i","c","e","s">>, PyList(<< PyDict(<< <<<<"m","e","s","s","a","g","e">>,
        PyDict(<< <<<<"c","o","n","t","e","n","t">>, PyStr(<<"L","i","k","e","l","y"," ","v","i","r","a","l"," ","b","r","o","n","c","h","i","t","i",
      "s",".">>)>> >>)>> >>) >>)>> >>)

UnexpectedBodies ==
    { PyDict(<< <<<<"c","h","o","i","c","e","s">>, PyList(<<>>)>> >>),
      PyDict(<< <<<<"c","h","o","i","c","e","s">>, PyList(<< PyDict(<< <<<<"m","e","s","s","a","g","e">>, PyDict(<<>>)>> >>) >>)>> >>),
      PyDict(<< <<<<"i","d">>, PyStr(<<"c","m","p","l","-","1">>)>> >>),
      PyList(<<>>),
      PyStr(<<"o","k">>) }

ErrorBodies ==
    { PyDict(<< <<<<"e","r","r","o","r">>, PyDict(<< <<<<"m","e","s","s","a","g","e">>, PyStr(<<"m","o","d","e","l","_","d","e","c","o","m","m","i","s","s","i","o","n","e","d",":"," ",
      "f","o","o">>)>> >>)>> >>),
      PyDict(<< <<<<"e","r","r","o","r">>, PyDict(<< <<<<"d","e","t","a","i","l">>, PyStr(<<"m","o","d","e","l"," ","w","a","s"," ","d","e","c","o","m","m","i","s","s","i","o","n",
      "e","d">>)>> >>)>> >>),
      PyDict(<< <<<<"e","r","r","o","r">>, PyDict(<< <<<<"c","o","d","e">>, PyStr(<<"m","o","d","e","l","_","d","e","c","o","m","m","i","s","s","i","o","n","e","d">>)>> >>)>> >>),
      PyDict(<< <<<<"e","r","r","o","r">>, PyStr(<<"d","e","c","o","m","m","i","s","s","i","o","n","e","d">>)>> >>),
      PyDict(<< <<<<"e","r","r","o","r">>, PyDict(<< <<<<"m","e","s","s","a","g","e">>, PyStr(<<"u","n","s","u","p","p","o","r","t","e","d"," ","m","o","d","e","l">>)>> >>)>> >>),
      PyDict(<< <<<<"e","r","r","o","r">>, PyDict(<< <<<<"m","e","s","s","a","g","e">>, PyStr(<<"M","o","d","e","l"," ","D","e","c","o","m","m","i","s","s","i","o","n","e","d">>)>> >>)>> >>),
      PyDict(<< <<<<"e","r","r","o","r">>, PyDict(<< <<<<"m","e","s","s","a","g","e">>, PyStr(<<"r","a","t","e"," ","l","i","m","i","t"," ","r","e","a","c","h","e","d">>)>> >>)>> >>),
      PyDict(<< <<<<"e","r","r","o","r">>, PyDict(<< <<<<"m","e","s","s","a","g","e">>, PyNum(429)>> >>)>> >>),
      PyDict(<< <<<<"m","e","s","s","a","g","e">>, PyStr(<<"i","n","v","a","l","i","d"," ","a","p","i"," ","k","e","y">>)>> >>) }

RawBodies == { RawText(<<"B","a","d"," ","G","a","t","e","w","a","y">>), RawText(<<"m","o","d","e","l"," ","d","e","c","o","m","m","i","s","s","i","o","n","e","d">>) }

Bodies == {ExpectedBody} \cup UnexpectedBodies \cup ErrorBodies \cup RawBodies

StatusCodes == {200, 201, 400, 429}

\* the exception classes requests.post raises on a connection or timeout failure
NetworkErrors == {"ConnectionError", "Timeout"}

\* ExceptionClasses had the handler caught the connection failures only
ExceptionClasses_network_only == NetworkErrors \cup {"HTTPError"}

\* the classes derived from Exception among those the flow can raise
ExceptionClasses == NetworkErrors \cup {"HTTPError", "JSONDecodeError"}

PostOutcomes ==
    [kind : {"response"}, status_code : StatusCodes, body : Bodies, exc : {"-"}]
    \cup [kind : {"raise"}, status_code : {0}, body : {PyNone}, exc : NetworkErrors]

Returned(v) == [kind |-> "return", v |-> v, cls |-> "-", response |-> PyNone]
Raised(cls, response) == [kind |-> "raise", v |-> PyNone, cls |-> cls, response |-> response]

\* resp.json(): [ok |-> FALSE] stands for the JSONDecodeError raised
resp_json(resp) ==
    IF resp.body.t = "text" THEN [ok |-> FALSE, v |-> PyNone]
    ELSE [ok |-> TRUE, v |-> resp.body]

\* resp.text, read only of a body that is no JSON document
resp_text(resp) == resp.body.s

\* data["choices"][0]["message"]["content"]
message_content(data) ==
    LET choices == getitem(data, PyStr(<<"c","h","o","i","c","e","s">>))
        first == IF choices.ok THEN getitem(choices.v, PyNum(0)) ELSE choices
        message == IF first.ok THEN getitem(first.v, PyStr(<<"m","e","s","s","a","g","e">>)) ELSE first
    IN  IF message.ok THEN getitem(message.v, PyStr(<<"c","o","n","t","e","n","t">>)) ELSE message

\* call_groq_chat raising for the 4xx and 5xx statuses only
call_groq_chat_from_400(post) ==
    IF post.kind = "raise" THEN Raised(post.exc, PyNone)
    ELSE IF post.status_code >= 400 THEN Raised("HTTPError", post)
    ELSE LET data == resp_json(post)
         IN  IF ~data.ok THEN Raised("JSONDecodeError", PyNone)
             ELSE IF message_content(data.v).ok THEN Returned(message_content(data.v).v)
             ELSE Returned(PyStr(json_dumps(data.v, 0)))

\* lines 47-59, given what requests.post did
call_groq_chat(post) ==
    IF post.kind = "raise" THEN Raised(post.exc, PyNone)
    ELSE IF post.status_code # 200 THEN Raised("HTTPError", post)
    ELSE LET data == resp_json(post)
         IN  IF ~data.ok THEN Raised("JSONDecodeError", PyNone)
             ELSE IF message_content(data.v).ok THEN Returned(message_content(data.v).v)
             ELSE Returned(PyStr(json_dumps(data.v, 0)))

(***************************************************************************)
(* The Streamlit script: the sidebar credential and the "Run assistant"    *)
(* handler.  display is what the handler has written to the page, in       *)
(* order: the Streamlit call, its fixed text, and the value formatted in.  *)
(***************************************************************************)
SidebarKeys == {"", "gsk_sidebar"}
EnvKeys == {"", "gsk_env"}

\* groq_key with a placeholder where no key is configured
groq_key_placeholder ==
    IF sidebar_key # "" THEN sidebar_key ELSE IF env_key # "" THEN env_key ELSE "gsk_unset"

\* line 109
groq_key == IF sidebar_key # "" THEN sidebar_key ELSE env_key

Item(w, fixed, arg) == [w |-> w, fixed |-> fixed, arg |-> arg]
PyExc(cls) == [t |-> "exc", cls |-> cls]

Running == Item("info", "Running the assistant...", PyNone)
FallbackHeading == Item("markdown", "**Fallback output:**", PyNone)
CodeBlock(v) == Item("code", "", v)

\* lines 134-137
local_fallback_display(text) ==
    << Item("warning", "No GROQ API key provided - using built-in fallback assistant.", PyNone),
       Item("markdown", "**Assistant output (local fallback):**", PyNone),
       CodeBlock(text) >>

\* lines 154-156
success_display(text) ==
    << Item("success", "Assistant completed (Groq).", PyNone),
       Item("markdown", "**Assistant output (Groq):**", PyNone),
       CodeBlock(text) >>

\* lines 159-163
err_json(resp) ==
    IF resp = PyNone THEN PyDict(<<>>)
    ELSE IF resp_json(resp).ok THEN resp_json(resp).v
    ELSE PyDict(<< <<<<"m","e","s","s","a","g","e">>, PyStr(resp_text(resp))>> >>)

\* err_obj.get("message") or err_obj.get("detail") or str(err_obj)
first_message(err_obj) ==
    IF truthy(dict_get(err_obj, <<"m","e","s","s","a","g","e">>, PyNone)) THEN dict_get(err_obj, <<"m","e","s","s","a","g","e">>, PyNone)
    ELSE IF truthy(dict_get(err_obj, <<"d","e","t","a","i","l">>, PyNone)) THEN dict_get(err_obj, <<"d","e","t","a","i","l">>, PyNone)
    ELSE PyStr(py_str(err_obj))

\* lines 165-171
err_msg(resp) ==
    LET json == err_json(resp)
        err_obj == IF json.t = "dict" THEN dict_get(json, <<"e","r","r","o","r">>, json) ELSE PyNone
        msg == IF err_obj.t = "dict" THEN first_message(err_obj) ELSE PyNone
    IN  IF truthy(msg) THEN msg ELSE PyStr(py_str(json))

\* is_decommissioned comparing in lower case
is_decommissioned_any_case(msg) ==
    msg.t = "str" /\ str_contains(str_lower(msg.s), <<"d","e","c","o","m","m","i","s","s","i","o","n">>)

\* line 174
is_decommissioned(msg) ==
    /\ msg.t = "str"
    /\ \/ str_contains(msg.s, <<"d","e","c","o","m","m","i","s","s","i","o","n","e","d">>)
       \/ str_contains(msg.s, <<"d","e","c","o","m","m","i","s","s","i","o","n">>)
       \/ str_contains(msg.s, <<"m","o","d","e","l","_","d","e","c","o","m","m","i","s","s","i","o","n","e","d">>)

\* lines 175-183
http_error_display(resp) ==
    IF is_decommissioned(err_msg(resp))
    THEN << Item("error", "Groq API rejected the model: it looks decommissioned or unsupported.", PyNone),
            Item("write", "Error message from Groq:", PyNone),
            CodeBlock(err_msg(resp)),
            Item("info", "Suggested action: pick a supported model from the dropdown", PyNone) >>
    ELSE << Item("error", "Groq API error (status code {}).",
                 IF resp = PyNone THEN PyStr(<<"N","/","A">>) ELSE PyNum(resp.status_code)),
            Item("write", "Error details:", PyNone),
            CodeBlock(err_msg(resp)) >>

\* lines 185-188
http_fallback_display(text) ==
    << Item("write", "Falling back to local assistant for now.", PyNone),
       FallbackHeading,
       CodeBlock(text) >>

\* generic_error_display showing the error alone
generic_error_display_error_only(cls, text) ==
    << Item("error", "Error calling Groq: {}", PyExc(cls)),
       Item("write", "Falling back to local assistant.", PyNone) >>

\* lines 191-195
generic_error_display(cls, text) ==
    << Item("error", "Error calling Groq: {}", PyExc(cls)),
       Item("write", "Falling back to local assistant.", PyNone),
       FallbackHeading,
       CodeBlock(text) >>

Init ==
    /\ sidebar_key \in SidebarKeys
    /\ env_key \in EnvKeys
    /\ patient_text \in HandlerNotes
    /\ action \in Actions
    /\ pc = "idle"
    /\ outcome = PyNone
    /\ assistant_text = PyNone
    /\ display = <<>>
    /\ calls = 0
    /\ posts = 0

\* a widget is edited: the script reruns with the button not pressed, and
\* whatever an earlier run of the handler wrote is gone from the page
Rerun ==
    /\ pc \in {"idle", "done", "aborted"}
    /\ pc' = "idle"
    /\ outcome' = PyNone
    /\ assistant_text' = PyNone
    /\ display' = <<>>
    /\ calls' = 0
    /\ posts' = 0
    /\ UNCHANGED env_key

\* line 102
EditSidebarKey ==
    /\ Rerun
    /\ sidebar_key' \in SidebarKeys \ {sidebar_key}
    /\ UNCHANGED <<patient_text, action>>

\* line 127
EditPatientText ==
    /\ Rerun
    /\ patient_text' \in HandlerNotes \ {patient_text}
    /\ UNCHANGED <<sidebar_key, action>>

\* line 128
EditAction ==
    /\ Rerun
    /\ action' \in Actions \ {action}
    /\ UNCHANGED <<sidebar_key, patient_text>>

\* lines 130-137: the button is pressed and there is no key
RunLocalFallback ==
    /\ pc = "idle"
    /\ groq_key = ""
    /\ assistant_text' = PyStr(fallback_assistant(patient_text, action))
    /\ display' = <<Running>> \o local_fallback_display(assistant_text')
    /\ pc' = "done"
    /\ UNCHANGED <<sidebar_key, env_key, patient_text, action, outcome, calls, posts>>

\* lines 130-131, 138-153 and 35-47: the button is pressed with a key, the
\* messages are built, call_groq_chat is entered and sends its POST
RunRemote ==
    /\ pc = "idle"
    /\ groq_key # ""
    /\ display' = <<Running>>
    /\ calls' = calls + 1
    /\ posts' = posts + 1
    /\ pc' = "posting"
    /\ UNCHANGED <<sidebar_key, env_key, patient_text, action, outcome, assistant_text>>

\* line 47: requests.post returns a response or raises
PostCompletes ==
    /\ pc = "posting"
    /\ outcome' \in PostOutcomes
    /\ pc' = "returned"
    /\ UNCHANGED <<sidebar_key, env_key, patient_text, action, assistant_text, display,
                   calls, posts>>

\* lines 153-156: call_groq_chat returned
SuccessBranch ==
    /\ pc = "returned"
    /\ call_groq_chat(outcome).kind = "return"
    /\ assistant_text' = call_groq_chat(outcome).v
    /\ display' = display \o success_display(assistant_text')
    /\ pc' = "done"
    /\ UNCHANGED <<sidebar_key, env_key, patient_text, action, outcome, calls, posts>>

\* HTTPErrorBranch calling the client once more
HTTPErrorBranch_retry ==
    /\ pc = "returned"
    /\ call_groq_chat(outcome).kind = "raise"
    /\ call_groq_chat(outcome).cls = "HTTPError"
    /\ calls' = calls + 1
    /\ posts' = posts + 1
    /\ pc' = "posting"
    /\ UNCHANGED <<sidebar_key, env_key, patient_text, action, outcome, assistant_text, display>>

\* lines 157-188: except requests.HTTPError
HTTPErrorBranch ==
    /\ pc = "returned"
    /\ call_groq_chat(outcome).kind = "raise"
    /\ call_groq_chat(outcome).cls = "HTTPError"
    /\ assistant_text' = PyStr(fallback_assistant(patient_text, action))
    /\ display' = display \o http_error_display(call_groq_chat(outcome).response)
                          \o http_fallback_display(assistant_text')
    /\ pc' = "done"
    /\ UNCHANGED <<sidebar_key, env_key, patient_text, action, outcome, calls, posts>>

\* lines 189-195: except Exception; anything else leaves the handler
ExceptionBranch ==
    /\ pc = "returned"
    /\ call_groq_chat(outcome).kind = "raise"
    /\ call_groq_chat(outcome).cls # "HTTPError"
    /\ IF call_groq_chat(outcome).cls \in ExceptionClasses
       THEN /\ assistant_text' = PyStr(fallback_assistant(patient_text, action))
            /\ display' = display
                          \o generic_error_display(call_groq_chat(outcome).cls, assistant_text')
            /\ pc' = "done"
       ELSE /\ pc' = "aborted"
            /\ UNCHANGED <<assistant_text, display>>
    /\ UNCHANGED <<sidebar_key, env_key, patient_text, action, outcome, calls, posts>>

Next ==
    \/ EditSidebarKey
    \/ EditPatientText
    \/ EditAction
    \/ RunLocalFallback
    \/ RunRemote
    \/ PostCompletes
    \/ SuccessBranch
    \/ HTTPErrorBranch
    \/ ExceptionBranch

Spec == Init /\ [][Next]_vars

(***************************************************************************)
(* fallback_assistant on its own, over longer notes and any action name.   *)
(***************************************************************************)
InitFallback ==
    /\ patient_text \in FallbackNotes
    /\ action \in Actions \cup {"Refer"}
    /\ pc = "idle"
    /\ assistant_text = PyNone
    /\ sidebar_key = ""
    /\ env_key = ""
    /\ outcome = PyNone
    /\ display = <<>>
    /\ calls = 0
    /\ posts = 0

ApplyFallback ==
    /\ pc = "idle"
    /\ assistant_text' = PyStr(fallback_assistant(patient_text, action))
    /\ pc' = "done"
    /\ UNCHANGED <<sidebar_key, env_key, patient_text, action, outcome, display, calls, posts>>

SpecFallback == InitFallback /\ [][ApplyFallback]_vars

(***************************************************************************)
(* What the page shows when the handler has finished.                      *)
(***************************************************************************)
Shown(w) == {i \in 1..Len(display) : display[i].w = w}
Headed(i, heading) ==
    i > 1 /\ display[i - 1].w = "markdown" /\ display[i - 1].fixed = heading
LastIsCodeUnder(heading) ==
    /\ display # <<>>
    /\ display[Len(display)].w = "code"
    /\ Headed(Len(display), heading)
RemoteFailed == calls > 0 /\ call_groq_chat(outcome).kind = "raise"

\* (a) remote-generated text only
SurfaceRemote ==
    /\ Shown("error") = {}
    /\ Shown("code") = {Len(display)}
    /\ LastIsCodeUnder("**Assistant output (Groq):**")
\* (b) locally generated fallback text only
SurfaceFallback ==
    /\ Shown("error") = {}
    /\ Shown("code") = {Len(display)}
    /\ LastIsCodeUnder("**Assistant output (local fallback):**")
\* (c) an error summary, then fallback text
SurfaceErrorThenFallback ==
    /\ Cardinality(Shown("error")) = 1
    /\ LastIsCodeUnder("**Fallback output:**")
    /\ \A e \in Shown("error") : \A c \in Shown("code") :
            /\ e < Len(display)
            /\ c = Len(display) \/ (e < c /\ c < Len(display) - 1)

(***************************************************************************)
(* C1.  Whenever both the sidebar key and the environment key are empty,   *)
(* the remote client is never entered and no POST is sent, and when the    *)
(* handler has finished the page shows, under the local-fallback heading,  *)
(* exactly the fallback text for the submitted note and action.            *)
(***************************************************************************)
C1_NoKeyNoRemoteCall ==
    (sidebar_key = "" /\ env_key = "") =>
        /\ calls = 0
        /\ posts = 0
        /\ pc \in {"idle", "done"}
        /\ pc = "done" =>
              /\ SurfaceFallback
              /\ display[Len(display)].arg = PyStr(fallback_assistant(patient_text, action))

C1_Witness ==
    /\ pc = "done"
    /\ sidebar_key = "" /\ env_key = ""
    /\ action = "Suggest tests"
    /\ patient_text = <<"P","a","t","i","e","n","t"," ","h","a","s"," ","f","e","v","e","r"," ","a","n","d"," ",
      "c","o","u","g","h",".">>
    /\ calls = 0
    /\ display[Len(display)].arg = PyStr(FeverLine \o <<"\n">> \o CoughLine)

(***************************************************************************)
(* C2.  As claimed: whenever the remote client has failed, the page ends   *)
(* with NON-EMPTY fallback text for the same note and action.              *)
(***************************************************************************)
C2_Original ==
    (pc = "done" /\ RemoteFailed) =>
        /\ LastIsCodeUnder("**Fallback output:**")
        /\ display[Len(display)].arg = PyStr(fallback_assistant(patient_text, action))
        /\ display[Len(display)].arg.s # <<>>

\* no fragment with anything but whitespace among the first three
\* period-separated fragments of the note
NoLeadingSentence(note) ==
    LET sents == str_split(str_replace(str_strip(note), "\n", " "), ".")
    IN  \A i \in 1..Len(sents) : i <= 3 => str_strip(sents[i]) = <<>>

(***************************************************************************)
(* C2, amended.  Whenever the remote client has failed (HTTPError, a       *)
(* network error, or the JSON decoding error), the page ends, under the    *)
(* fallback heading, with the fallback text for the same note and action;  *)
(* that text is empty exactly when the action is Summarize and none of the *)
(* first three fragments of the note holds anything but whitespace.        *)
(***************************************************************************)
C2_FailureShowsFallback ==
    (pc = "done" /\ RemoteFailed) =>
        /\ LastIsCodeUnder("**Fallback output:**")
        /\ display[Len(display)].arg = PyStr(fallback_assistant(patient_text, action))
        /\ display[Len(display)].arg.s = <<>>
              <=> (action = "Summarize" /\ NoLeadingSentence(patient_text))

C2_Witness ==
    /\ pc = "done"
    /\ RemoteFailed
    /\ call_groq_chat(outcome).cls = "Timeout"
    /\ action = "Summarize"
    /\ patient_text = <<>>
    /\ display[Len(display)].arg = PyStr(<<>>)

(***************************************************************************)
(* C3.  With a non-empty credential, a run of the handler enters           *)
(* call_groq_chat once and sends one POST: from the moment the call is     *)
(* made to the end of the run, whatever the outcome, both counts are 1,    *)
(* and they are 0 before the button is pressed.                            *)
(***************************************************************************)
C3_ExactlyOneAttempt ==
    /\ calls <= 1
    /\ posts <= 1
    /\ (sidebar_key # "" \/ env_key # "") =>
          /\ pc = "idle" => (calls = 0 /\ posts = 0)
          /\ pc \in {"posting", "returned", "done", "aborted"} => (calls = 1 /\ posts = 1)

C3_Witness ==
    /\ pc = "done"
    /\ RemoteFailed
    /\ call_groq_chat(outcome).cls = "HTTPError"
    /\ calls = 1
    /\ posts = 1

(***************************************************************************)
(* C4.  The handler is never left by an exception, and when it has         *)
(* finished the page shows exactly one of: remote text only, fallback text *)
(* only, or one error summary followed by fallback text, the error summary *)
(* and every error detail above the fallback text.                         *)
(***************************************************************************)
C4_OneSurface ==
    /\ pc # "aborted"
    /\ pc = "done" =>
          /\ SurfaceRemote \/ SurfaceFallback \/ SurfaceErrorThenFallback
          /\ ~(SurfaceRemote /\ SurfaceFallback)
          /\ ~(SurfaceRemote /\ SurfaceErrorThenFallback)
          /\ ~(SurfaceFallback /\ SurfaceErrorThenFallback)
          /\ RemoteFailed <=> SurfaceErrorThenFallback
          /\ calls = 0 <=> SurfaceFallback

C4_Witness ==
    /\ pc = "done"
    /\ RemoteFailed
    /\ call_groq_chat(outcome).cls = "JSONDecodeError"
    /\ SurfaceErrorThenFallback
    /\ Len(display) = 5

(***************************************************************************)
(* C5.  As claimed: a response with status 200 whose body lacks            *)
(* choices[0].message.content, or is malformed in any other way, does not  *)
(* make the client fail, and the run ends on the remote-success surface.   *)
(***************************************************************************)
UnexpectedShape(body) == body.t = "text" \/ ~message_content(body).ok

C5_Original ==
    (pc = "done" /\ calls > 0 /\ outcome.kind = "response"
        /\ outcome.status_code = 200 /\ UnexpectedShape(outcome.body)) =>
        /\ ~RemoteFailed
        /\ SurfaceRemote

(***************************************************************************)
(* C6.  As claimed: the client raises the HTTP error exactly when the      *)
(* status is outside 200..299.                                             *)
(***************************************************************************)
RaisesHTTPError(post) ==
    call_groq_chat(post).kind = "raise" /\ call_groq_chat(post).cls = "HTTPError"

C6_Original ==
    (pc \in {"returned", "done"} /\ calls > 0 /\ outcome.kind = "response") =>
        (RaisesHTTPError(outcome) <=> outcome.status_code \notin 200..299)

(***************************************************************************)
(* C6, amended.  The client raises the HTTP error, carrying the response   *)
(* with its status code and body, exactly when the status is not 200; only *)
(* a 200 response is treated as success.  The handler then shows the       *)
(* HTTP-error summary exactly for those responses.                         *)
(***************************************************************************)
C6_ErrorIffNot200 ==
    (pc \in {"returned", "done"} /\ calls > 0 /\ outcome.kind = "response") =>
        /\ RaisesHTTPError(outcome) <=> outcome.status_code # 200
        /\ RaisesHTTPError(outcome) =>
              /\ call_groq_chat(outcome).response.status_code = outcome.status_code
              /\ call_groq_chat(outcome).response.body = outcome.body
        /\ pc = "done" =>
              ((\E e \in Shown("error") : display[e].fixed # "Error calling Groq: {}")
                  <=> outcome.status_code # 200)

C6_Witness ==
    /\ pc = "done"
    /\ calls > 0
    /\ outcome.kind = "response"
    /\ outcome.status_code = 201
    /\ outcome.body = ExpectedBody
    /\ RaisesHTTPError(outcome)
    /\ display[2] = Item("error", "Groq API error (status code {}).", PyNum(201))

(***************************************************************************)
(* The error summary of a failed response, as the page shows it.           *)
(***************************************************************************)
ShownDecommissioned ==
    \E e \in Shown("error") :
        /\ display[e].fixed = "Groq API rejected the model: it looks decommissioned or unsupported."
        /\ \E i \in Shown("info") : i > e
ShownGenericError ==
    \E e \in Shown("error") : display[e].fixed = "Groq API error (status code {})."
\* the error message the page shows under the summary
ShownErrorMessage == display[SetMin(Shown("code"))].arg

\* error.message, else error.detail, else the text of the body, as the claim reads it
ClaimedMessage(body) ==
    LET err == IF body.t = "dict" /\ has_key(body, <<"e","r","r","o","r">>)
               THEN dict_get(body, <<"e","r","r","o","r">>, PyNone) ELSE PyNone
        message == IF err.t = "dict" THEN dict_get(err, <<"m","e","s","s","a","g","e">>, PyNone) ELSE PyNone
        detail == IF err.t = "dict" THEN dict_get(err, <<"d","e","t","a","i","l">>, PyNone) ELSE PyNone
    IN  IF message.t = "str" /\ message.s # <<>> THEN message.s
        ELSE IF detail.t = "str" /\ detail.s # <<>> THEN detail.s
        ELSE IF body.t = "text" THEN body.s
        ELSE json_dumps(body, 0)

MentionsDecommissionedOrUnsupported(s) ==
    \/ str_contains(str_lower(s), <<"d","e","c","o","m","m","i","s","s","i","o","n">>)
    \/ str_contains(str_lower(s), <<"u","n","s","u","p","p","o","r","t","e","d">>)

DecommissionedExample ==
    PyDict(<< <<<<"e","r","r","o","r">>, PyDict(<< <<<<"m","e","s","s","a","g","e">>, PyStr(<<"m","o","d","e","l","_","d","e","c","o","m","m","i","s","s","i","o","n","e","d",":"," ",
      "f","o","o">>)>> >>)>> >>)

(***************************************************************************)
(* C7.  As claimed: a failed response is classified decommissioned-model   *)
(* when its error message mentions a decommissioned or unsupported model,  *)
(* and generic otherwise.                                                  *)
(***************************************************************************)
C7_Original ==
    (pc = "done" /\ calls > 0 /\ RaisesHTTPError(outcome)) =>
        /\ ShownDecommissioned
              <=> MentionsDecommissionedOrUnsupported(ClaimedMessage(outcome.body))
        /\ ShownGenericError <=> ~ShownDecommissioned

(***************************************************************************)
(* C7, amended.  A failed response is classified decommissioned-model,     *)
(* with the model-selection hint, exactly when the error message shown     *)
(* (error.message, else error.detail, else the text of the error object or *)
(* of the whole body) is a string containing "decommission" in lower case; *)
(* every other failed response is classified generic, among them a message *)
(* that mentions only an unsupported model or writes the word with         *)
(* capitals.  A non-empty string error.message is the message shown, and   *)
(* the body {"error":{"message":"model_decommissioned: foo"}} is           *)
(* classified decommissioned-model.                                        *)
(***************************************************************************)
C7_DecommissionedIffSubstring ==
    (pc = "done" /\ calls > 0 /\ RaisesHTTPError(outcome)) =>
        /\ ShownDecommissioned
              <=> (ShownErrorMessage.t = "str"
                   /\ str_contains(ShownErrorMessage.s, <<"d","e","c","o","m","m","i","s","s","i","o","n">>))
        /\ ShownGenericError <=> ~ShownDecommissioned
        /\ (outcome.body.t = "dict" /\ has_key(outcome.body, <<"e","r","r","o","r">>)
              /\ dict_get(outcome.body, <<"e","r","r","o","r">>, PyNone).t = "dict"
              /\ dict_get(dict_get(outcome.body, <<"e","r","r","o","r">>, PyNone), <<"m","e","s","s","a","g","e">>, PyNone).t = "str"
              /\ dict_get(dict_get(outcome.body, <<"e","r","r","o","r">>, PyNone), <<"m","e","s","s","a","g","e">>, PyNone).s # <<>>)
           => ShownErrorMessage = PyStr(ClaimedMessage(outcome.body))
        /\ outcome.body = DecommissionedExample => ShownDecommissioned

C7_Witness ==
    /\ pc = "done"
    /\ calls > 0
    /\ outcome.kind = "response"
    /\ outcome.status_code = 400
    /\ outcome.body = DecommissionedExample
    /\ ShownDecommissioned
    /\ ShownErrorMessage = PyStr(<<"m","o","d","e","l","_","d","e","c","o","m","m","i","s","s","i","o","n","e","d",":"," ",
      "f","o","o">>)

(***************************************************************************)
(* C8.  For "Triage urgency" the result is the Emergency tier for every    *)
(* note containing an emergency keyword in any letter case, whatever       *)
(* urgent keywords it also contains; it is the High-urgency tier exactly   *)
(* when no emergency keyword and some urgent keyword is present, and the   *)
(* Low-moderate tier exactly when neither is.                              *)
(***************************************************************************)
HasEmergency(note) == any_in(str_lower(note), EmergencyKeywords)
HasUrgent(note) == any_in(str_lower(note), UrgentKeywords)

C8_EmergencyFirst ==
    (pc = "done" /\ action = "Triage urgency") =>
        /\ str_contains(patient_text, <<"c","a","r","d","i","a","c"," ","a","r","r","e","s","t">>) => assistant_text.s = EmergencyTier
        /\ HasEmergency(patient_text) <=> assistant_text.s = EmergencyTier
        /\ (~HasEmergency(patient_text) /\ HasUrgent(patient_text))
              <=> assistant_text.s = HighTier
        /\ (~HasEmergency(patient_text) /\ ~HasUrgent(patient_text))
              <=> assistant_text.s = LowTier

C8_Witness ==
    /\ pc = "done"
    /\ action = "Triage urgency"
    /\ str_contains(patient_text, <<"c","a","r","d","i","a","c"," ","a","r","r","e","s","t">>)
    /\ str_contains(patient_text, <<"c","h","e","s","t"," ","p","a","i","n">>)
    /\ str_contains(patient_text, <<"h","i","g","h"," ","f","e","v","e","r">>)
    /\ assistant_text.s = EmergencyTier

(***************************************************************************)
(* C9.  For "Suggest tests" the result is, one per line, the fever line,   *)
(* the cough line and the chest-pain line of exactly the keyword sets the  *)
(* note matches, in that order and with no line twice; the generic line is *)
(* there exactly when no set matches, and is then the whole result.        *)
(***************************************************************************)
SuggestionLines == <<FeverLine, CoughLine, ChestLine>>
SuggestionKeywords == <<FeverKeywords, CoughKeywords, ChestKeywords>>
LineAt(lines, l) == {i \in 1..Len(lines) : lines[i] = l}

C9_OneLinePerMatchedSet ==
    (pc = "done" /\ action = "Suggest tests") =>
        LET lines == str_split(assistant_text.s, "\n")
            matched == {k \in 1..3 : any_in(str_lower(patient_text), SuggestionKeywords[k])}
        IN  /\ \A k \in 1..3 :
                  Cardinality(LineAt(lines, SuggestionLines[k])) = IF k \in matched THEN 1 ELSE 0
            /\ \A j, k \in matched :
                  j < k => \A a \in LineAt(lines, SuggestionLines[j]) :
                           \A b \in LineAt(lines, SuggestionLines[k]) : a < b
            /\ LineAt(lines, GenericLine) # {} <=> matched = {}
            /\ matched = {} => assistant_text.s = GenericLine
            /\ Len(lines) = IF matched = {} THEN 1 ELSE Cardinality(matched)

C9_Witness ==
    /\ pc = "done"
    /\ action = "Suggest tests"
    /\ patient_text = <<"P","a","t","i","e","n","t"," ","h","a","s"," ","f","e","v","e","r"," ","a","n","d"," ",
      "c","o","u","g","h",".">>
    /\ assistant_text.s = FeverLine \o <<"\n">> \o CoughLine

(***************************************************************************)
(* C10.  As claimed: for "Summarize" the result is built from the first    *)
(* three NON-EMPTY period-separated fragments of the note, empty fragments *)
(* not counting toward the three, so that a note with at least three       *)
(* non-empty fragments contributes three.                                  *)
(***************************************************************************)
Fragments(note) == str_split(str_replace(str_lower(str_strip(note)), "\n", " "), ".")
NonBlank(s) == str_strip(s) # <<>>
\* the fragments joined as the summary joins them
Joined(frags) ==
    LET body == str_join(<<"."," ">>, [i \in 1..Len(frags) |-> str_capitalize(str_strip(frags[i]))])
    IN  IF body = <<>> THEN <<>> ELSE body \o <<".">>
\* how many fragments a summary holds
Contributed(summary) == IF summary = <<>> THEN 0 ELSE Len(str_split(summary, ".")) - 1

C10_Original ==
    (pc = "done" /\ action = "Summarize") =>
        LET nonblank == SelectSeq(Fragments(patient_text), NonBlank)
        IN  /\ assistant_text.s = Joined(slice_to(nonblank, 3))
            /\ Len(nonblank) >= 3 => Contributed(assistant_text.s) = 3
            /\ patient_text = <<>> => assistant_text.s = <<>>

(***************************************************************************)
(* C10, amended.  For "Summarize" the result is built from the non-empty   *)
(* fragments AMONG THE FIRST THREE period-separated fragments of the       *)
(* stripped, lower-cased note: an empty fragment there counts toward the   *)
(* three, so the result holds at most three fragments and fewer when one   *)
(* of the first three is empty; each is capitalized, they are joined with  *)
(* ". ", and an empty note gives the empty string.                         *)
(***************************************************************************)
C10_FirstThreeThenNonEmpty ==
    (pc = "done" /\ action = "Summarize") =>
        LET first == slice_to(Fragments(patient_text), 3)
        IN  /\ assistant_text.s = Joined(SelectSeq(first, NonBlank))
            /\ Contributed(assistant_text.s) = Len(SelectSeq(first, NonBlank))
            /\ Contributed(assistant_text.s) <= 3
            /\ patient_text = <<>> => assistant_text.s = <<>>

C10_Witness ==
    /\ pc = "done"
    /\ action = "Summarize"
    /\ patient_text = <<"S","o","r","e"," ","t","h","r","o","a","t","."," ","."," ","R","u","n","n","y"," ","n",
      "o","s","e",".",".","."," ","S","n","e","e","z","i","n","g","."," ","H","e","a","d",
      "a","c","h","e",".">>
    /\ assistant_text.s = <<"S","o","r","e"," ","t","h","r","o","a","t","."," ","R","u","n","n","y"," ","n","o","s",
      "e",".">>
====
